---- MODULE Spec2Model ----
(***************************************************************************)
(* Year-partitioned daily-bar store of the trading market data service     *)
(* (app-runner-trading-service/app/main.py): date-keyed merge, split by    *)
(* year, manifest maintenance, and the get_daily / refresh handlers that   *)
(* read-modify-write partitions through the blob store.                    *)
(*                                                                         *)
(* A date string "YYYY-MM-DD" is the integer YYYYMMDD: for zero-padded     *)
(* four-digit-year ISO dates the string order is the integer order.        *)
(* A bar is a record with fields date and close; a malformed bar has no    *)
(* date field.                                                             *)
(***************************************************************************)
EXTENDS Integers, Sequences, FiniteSets, TLC

VARIABLES store, manifest, upstream, revisions, pc, req, loc, lab, owed, drv, mr, eng

vars == <<store, manifest, upstream, revisions, pc, req, loc, lab, owed, drv, mr, eng>>

----------------------------------------------------------------------------
(* Bounds *)

\* longest sequence of bars drawn as an input of the pure functions
MaxLen == 2
\* number of late corrections the upstream provider publishes
MaxRevisions == 1
MaxSymbols == 3

----------------------------------------------------------------------------
(* Calendar *)

MkDate(y, m, d) == y * 10000 + m * 100 + d

NoDate == 0
NoYear == 0

YearOf(d) == d \div 10000
MonthOf(d) == (d \div 100) % 100
DayOf(d) == d % 100

IsLeap(y) == (y % 4 = 0 /\ y % 100 # 0) \/ y % 400 = 0

DaysInMonth(y, m) ==
    IF m = 2 THEN (IF IsLeap(y) THEN 29 ELSE 28)
    ELSE IF m \in {4, 6, 9, 11} THEN 30 ELSE 31

PrevDay(d) ==
    IF DayOf(d) > 1 THEN d - 1
    ELSE IF MonthOf(d) > 1
         THEN MkDate(YearOf(d), MonthOf(d) - 1, DaysInMonth(YearOf(d), MonthOf(d) - 1))
         ELSE MkDate(YearOf(d) - 1, 12, 31)

RECURSIVE MinusDays(_, _)
MinusDays(d, k) == IF k = 0 THEN d ELSE MinusDays(PrevDay(d), k - 1)

Jan1(y) == MkDate(y, 1, 1)

----------------------------------------------------------------------------
(* Bars *)

HasDate(r) == "date" \in DOMAIN r

\* r.get("date", ""): the empty string sorts before every date
DateKey(r) == IF HasDate(r) THEN r.date ELSE NoDate

Bar(d, c) == [date |-> d, close |-> c]
Undated(c) == [close |-> c]

DatesOf(rows) == {rows[i].date : i \in {j \in 1..Len(rows) : HasDate(rows[j])}}

\* list.sort(key=...) is stable: an element goes after the elements whose key is <= its own
RECURSIVE InsertByDate(_, _)
InsertByDate(sorted, r) ==
    IF sorted = <<>> THEN <<r>>
    ELSE IF DateKey(sorted[Len(sorted)]) <= DateKey(r)
         THEN Append(sorted, r)
         ELSE Append(InsertByDate(SubSeq(sorted, 1, Len(sorted) - 1), r), sorted[Len(sorted)])

RECURSIVE SortByDate(_)
SortByDate(rows) ==
    IF rows = <<>> THEN <<>>
    ELSE InsertByDate(SortByDate(SubSeq(rows, 1, Len(rows) - 1)), rows[Len(rows)])

\* by_date[k] = r on an insertion-ordered dict kept as a sequence of <<key, value>>
DictPut(dict, k, r) ==
    IF \E i \in 1..Len(dict) : dict[i][1] = k
    THEN [i \in 1..Len(dict) |-> IF dict[i][1] = k THEN <<k, r>> ELSE dict[i]]
    ELSE Append(dict, <<k, r>>)

RECURSIVE DictPutAll(_, _)
DictPutAll(dict, rows) ==
    IF rows = <<>> THEN dict
    ELSE DictPutAll(IF HasDate(Head(rows)) THEN DictPut(dict, Head(rows).date, Head(rows)) ELSE dict,
                    Tail(rows))

DictValues(dict) == [i \in 1..Len(dict) |-> dict[i][2]]

_merge_records_nosort(existing, incoming) ==
    DictValues(DictPutAll(DictPutAll(<<>>, existing), incoming))

_merge_records_append(existing, incoming) ==
    SortByDate(existing \o incoming)

_merge_records_keepold(existing, incoming) ==
    SortByDate(DictValues(DictPutAll(DictPutAll(<<>>, incoming), existing)))

_merge_records(existing, incoming) ==
    SortByDate(DictValues(DictPutAll(DictPutAll(<<>>, existing), incoming)))


\* _split_by_year: the years in order of first occurrence, each year's rows sorted by date
RECURSIVE YearsInOrder(_, _)
YearsInOrder(rows, seen) ==
    IF rows = <<>> THEN seen
    ELSE YearsInOrder(Tail(rows),
            IF HasDate(Head(rows)) /\ ~(\E i \in 1..Len(seen) : seen[i] = YearOf(Head(rows).date))
            THEN Append(seen, YearOf(Head(rows).date))
            ELSE seen)

RowsOfYear(rows, y) == SelectSeq(rows, LAMBDA r : HasDate(r) /\ YearOf(r.date) = y)

_split_by_year_keys(records) == YearsInOrder(records, <<>>)

_split_by_year_rows(records, y) == SortByDate(RowsOfYear(records, y))

----------------------------------------------------------------------------
(* Upstream quote provider and the clock *)

D1 == MkDate(2023, 12, 29)
D2 == MkDate(2024, 1, 2)
D3 == MkDate(2024, 1, 15)

\* trading days the provider has published
TradingDays == {D1, D2, D3}

\* _utc_now().date()
Today == D3

RECURSIVE SetToSortedSeq(_)
SetToSortedSeq(S) ==
    IF S = {} THEN <<>>
    ELSE LET m == CHOOSE x \in S : \A z \in S : x <= z
         IN <<m>> \o SetToSortedSeq(S \ {m})

\* the provider's answer for [start, end]: one bar per trading day of the window, ascending
UpstreamRows(up, start, end) ==
    LET days == SetToSortedSeq({d \in TradingDays : start <= d /\ d <= end})
    IN [i \in 1..Len(days) |-> Bar(days[i], up[days[i]])]

\* _fetch_daily: the provider's rows, or [] when both sources fail
_fetch_daily_outcomes(up, start, end) == {UpstreamRows(up, start, end), <<>>}

----------------------------------------------------------------------------
(* Blob store objects *)

Years == {2023, 2024}

AbsentPartition == [present |-> FALSE, year |-> NoYear, count |-> 0, data |-> <<>>]

Payload(y, merged) == [present |-> TRUE, year |-> y, count |-> Len(merged), data |-> merged]

\* (_get_s3_json(key) or {}).get("data") or []
CachedData(part) == IF part.present THEN part.data ELSE <<>>

AbsentManifest ==
    [present |-> FALSE, years |-> {}, latestDateByYear |-> [y \in Years |-> NoDate], latestDate |-> NoDate]

MaxOf(S) == IF S = {} THEN NoDate ELSE CHOOSE x \in S : \A z \in S : z <= x

LatestAcross(latest_by_year) == MaxOf({latest_by_year[y] : y \in Years} \ {NoDate})

_update_manifest_newonly(man, year, payload) ==
    LET latest_by_year ==
            IF payload.data # <<>>
            THEN [man.latestDateByYear EXCEPT ![year] = DateKey(payload.data[Len(payload.data)])]
            ELSE man.latestDateByYear
    IN [present |-> TRUE,
        years |-> man.years \cup {year},
        latestDateByYear |-> latest_by_year,
        latestDate |-> latest_by_year[year]]

\* the manifest object _update_manifest writes, given the manifest it read
_update_manifest(man, year, payload) ==
    LET latest_by_year ==
            IF payload.data # <<>>
            THEN [man.latestDateByYear EXCEPT ![year] = DateKey(payload.data[Len(payload.data)])]
            ELSE man.latestDateByYear
    IN [present |-> TRUE,
        years |-> man.years \cup {year},
        latestDateByYear |-> latest_by_year,
        latestDate |-> LatestAcross(latest_by_year)]


----------------------------------------------------------------------------
(* Requests *)

Procs == {"r1", "r2"}

\* lookbackDays: int = 10 (get_daily); timedelta(days=10) (refresh)
DefaultLookback == 10

StartChoices == {NoDate, D3}
EndChoices == {NoDate, D2}
YearChoices == {NoYear, 2023}
LookbackChoices == {1, DefaultLookback}
\* years: int = 3
DefaultYears == 3

YearsChoices == {1, DefaultYears}

GetDailyRequests ==
    [kind : {"get_daily"}, fillYear : BOOLEAN, incremental : BOOLEAN,
     start : StartChoices, end : EndChoices, year : YearChoices,
     lookbackDays : LookbackChoices, years : YearsChoices, store : {TRUE}]

RefreshRequests ==
    [kind : {"refresh"}, fillYear : BOOLEAN, incremental : BOOLEAN,
     start : StartChoices, end : EndChoices, year : YearChoices,
     lookbackDays : {DefaultLookback}, years : {DefaultYears}, store : BOOLEAN]

Requests == GetDailyRequests \cup RefreshRequests

NoReq ==
    [kind |-> "none", fillYear |-> FALSE, incremental |-> FALSE,
     start |-> NoDate, end |-> NoDate, year |-> NoYear,
     lookbackDays |-> 0, years |-> 0, store |-> FALSE]

\* RefreshRequest() with every field at its default: the scheduled refresh
DefaultRefresh ==
    [kind |-> "refresh", fillYear |-> FALSE, incremental |-> TRUE,
     start |-> NoDate, end |-> NoDate, year |-> NoYear,
     lookbackDays |-> DefaultLookback, years |-> DefaultYears, store |-> TRUE]

\* get_daily(symbol) with every query parameter at its default
DefaultGetDaily ==
    [kind |-> "get_daily", fillYear |-> FALSE, incremental |-> TRUE,
     start |-> NoDate, end |-> NoDate, year |-> NoYear,
     lookbackDays |-> DefaultLookback, years |-> DefaultYears, store |-> TRUE]

NoLoc ==
    [end_date |-> NoDate, target_year |-> NoYear, start |-> NoDate,
     cached_data |-> <<>>, records |-> <<>>, queue |-> <<>>, merged |-> <<>>,
     man |-> AbsentManifest, alone |-> FALSE,
     count |-> -1, data |-> <<>>, fetches |-> <<>>]


----------------------------------------------------------------------------
(* Pure-function bench: _merge_records applied to drawn inputs *)

BenchDates == {D2, MkDate(2024, 1, 3)}
BenchCloses == {100, 101, 102}
BenchBars == {Bar(d, c) : d \in BenchDates, c \in BenchCloses} \cup {Undated(100)}

SeqsUpTo(S, n) == UNION {[1..k -> S] : k \in 0..n}

BenchOff == [stage |-> "off", P |-> <<>>, B |-> <<>>, out |-> <<>>, again |-> <<>>]

BenchMerge ==
    /\ lab.stage = "in"
    /\ lab' = [lab EXCEPT !.stage = "once", !.out = _merge_records(lab.P, lab.B)]
    /\ UNCHANGED <<store, manifest, upstream, revisions, pc, req, loc, owed, drv, mr, eng>>

BenchMergeAgain ==
    /\ lab.stage = "once"
    /\ lab' = [lab EXCEPT !.stage = "twice", !.again = _merge_records(lab.out, lab.B)]
    /\ UNCHANGED <<store, manifest, upstream, revisions, pc, req, loc, owed, drv, mr, eng>>

----------------------------------------------------------------------------
(* Handlers, one action per storage or provider call *)

\* _put_s3_json(key, payload): the object is overwritten whatever it holds now
_put_s3_json_merging(current, payload) ==
    Payload(payload.year, _merge_records(CachedData(current), payload.data))

_put_s3_json(current, payload) == payload

Merges(r) == r.kind = "get_daily" \/ r.incremental

\* history: the <<year, date>> of bars a merging writer's put removed from a partition
\* (it merged into a copy read before another writer's put) and no later put has stored again
OwedAfterPut(r, y, merged) ==
    (owed \ {<<y, d>> : d \in DatesOf(merged)})
        \cup (IF Merges(r)
              THEN {<<y, d>> : d \in DatesOf(CachedData(store[y])) \ DatesOf(merged)}
              ELSE {})

EndDate(r) == IF r.end # NoDate THEN r.end ELSE Today

TargetYear(r) == IF r.year # NoYear THEN r.year ELSE YearOf(EndDate(r))

Writes(r) == r.kind = "get_daily" \/ r.store

AfterFill_alwaysupdate(r) ==
    IF r.kind = "get_daily" THEN "inc_get"
    ELSE (IF r.incremental THEN "inc_get"
          ELSE IF r.start # NoDate \/ r.end # NoDate THEN "inc_fetch" ELSE "done")

AfterFill_exclusive(r) ==
    IF r.fillYear
    THEN (IF r.kind = "get_daily" THEN "read" ELSE "done")
    ELSE IF r.kind = "get_daily"
    THEN (IF r.incremental /\ r.start = NoDate /\ r.end = NoDate THEN "inc_get" ELSE "read")
    ELSE (IF r.incremental THEN "inc_get"
          ELSE IF r.start # NoDate \/ r.end # NoDate THEN "inc_fetch" ELSE "done")

\* where the handler continues after the fillYear block
AfterFill(r) ==
    IF r.kind = "get_daily"
    THEN (IF r.incremental /\ r.start = NoDate /\ r.end = NoDate THEN "inc_get" ELSE "read")
    ELSE (IF r.incremental THEN "inc_get"
          ELSE IF r.start # NoDate \/ r.end # NoDate THEN "inc_fetch" ELSE "done")

Start(p, r) ==
    /\ pc[p] = "idle"
    /\ req' = [req EXCEPT ![p] = r]
    /\ loc' = [q \in Procs |->
                 IF q = p
                 THEN [NoLoc EXCEPT !.end_date = EndDate(r),
                                    !.target_year = TargetYear(r),
                                    !.start = r.start,
                                    !.alone = \A o \in Procs : pc[o] = "idle"]
                 ELSE [loc[q] EXCEPT !.alone = FALSE]]
    /\ pc' = [pc EXCEPT ![p] = IF r.fillYear THEN "fill_fetch" ELSE AfterFill(r)]
    /\ UNCHANGED <<store, manifest, upstream, revisions, lab, owed, drv, mr, eng>>

FillFetch(p) ==
    /\ pc[p] = "fill_fetch"
    /\ \E rows \in _fetch_daily_outcomes(upstream, Jan1(loc[p].target_year), loc[p].end_date) :
         LET q == _split_by_year_keys(rows)
         IN /\ loc' = [loc EXCEPT ![p].records = rows, ![p].queue = q,
                                  ![p].fetches = Append(@, <<Jan1(loc[p].target_year),
                                                             loc[p].end_date>>)]
            /\ pc' = [pc EXCEPT ![p] = IF q = <<>> THEN AfterFill(req[p]) ELSE "fill_get"]
    /\ UNCHANGED <<store, manifest, upstream, revisions, req, lab, owed, drv, mr, eng>>

FillGet(p) ==
    /\ pc[p] = "fill_get"
    /\ LET y == Head(loc[p].queue)
           cached == CachedData(IF y \in Years THEN store[y] ELSE AbsentPartition)
           merged == _merge_records(cached, _split_by_year_rows(loc[p].records, y))
       IN IF Writes(req[p])
          THEN /\ loc' = [loc EXCEPT ![p].cached_data = cached, ![p].merged = merged]
               /\ pc' = [pc EXCEPT ![p] = "fill_put"]
          ELSE /\ loc' = [loc EXCEPT ![p].queue = Tail(@)]
               /\ pc' = [pc EXCEPT ![p] = IF Tail(loc[p].queue) = <<>>
                                          THEN AfterFill(req[p]) ELSE "fill_get"]
    /\ UNCHANGED <<store, manifest, upstream, revisions, req, lab, owed, drv, mr, eng>>

FillPut(p) ==
    /\ pc[p] = "fill_put"
    /\ LET y == Head(loc[p].queue)
       IN /\ store' = [store EXCEPT ![y] = _put_s3_json(@, Payload(y, loc[p].merged))]
          /\ owed' = OwedAfterPut(req[p], y, store'[y].data)
    /\ pc' = [pc EXCEPT ![p] = "fill_mget"]
    /\ UNCHANGED <<manifest, upstream, revisions, req, loc, lab, drv, mr, eng>>

FillManifestGet(p) ==
    /\ pc[p] = "fill_mget"
    /\ loc' = [loc EXCEPT ![p].man = manifest]
    /\ pc' = [pc EXCEPT ![p] = "fill_mput"]
    /\ UNCHANGED <<store, manifest, upstream, revisions, req, lab, owed, drv, mr, eng>>

FillManifestPut(p) ==
    /\ pc[p] = "fill_mput"
    /\ LET y == Head(loc[p].queue)
       IN manifest' = _update_manifest(loc[p].man, y, Payload(y, loc[p].merged))
    /\ loc' = [loc EXCEPT ![p].queue = Tail(@), ![p].man = AbsentManifest,
                          ![p].cached_data = <<>>, ![p].merged = <<>>]
    /\ pc' = [pc EXCEPT ![p] = IF Tail(loc[p].queue) = <<>> THEN AfterFill(req[p]) ELSE "fill_get"]
    /\ UNCHANGED <<store, upstream, revisions, req, lab, owed, drv, mr, eng>>


LastDate(rows) == rows[Len(rows)].date

_incremental_start_nolookback(r, target_year, cached_data) ==
    IF r.kind = "get_daily"
    THEN (IF cached_data # <<>> THEN LastDate(cached_data) ELSE r.start)
    ELSE (IF r.start = NoDate /\ r.end = NoDate
          THEN (IF cached_data # <<>> THEN LastDate(cached_data) ELSE Jan1(target_year))
          ELSE r.start)

\* the start the handler settles on after reading the cached partition
_incremental_start(r, target_year, cached_data) ==
    IF r.kind = "get_daily"
    THEN (IF cached_data # <<>> THEN MinusDays(LastDate(cached_data), r.lookbackDays) ELSE r.start)
    ELSE (IF r.start = NoDate /\ r.end = NoDate
          THEN (IF cached_data # <<>>
                THEN MinusDays(LastDate(cached_data), DefaultLookback)
                ELSE Jan1(target_year))
          ELSE r.start)

\* cached_data[-1]["date"] is evaluated: get_daily whenever the block runs with cached data,
\* refresh when incremental with no start and no end
IndexesLastDate(r, cached_data) ==
    /\ cached_data # <<>>
    /\ r.kind = "get_daily" \/ (r.start = NoDate /\ r.end = NoDate)

IncrementalGet(p) ==
    /\ pc[p] = "inc_get"
    /\ LET cached == CachedData(store[loc[p].target_year])
       IN IF IndexesLastDate(req[p], cached) /\ ~HasDate(cached[Len(cached)])
          THEN \* KeyError: 'date' leaves the handler
               /\ loc' = [loc EXCEPT ![p].cached_data = cached, ![p].records = <<>>]
               /\ pc' = [pc EXCEPT ![p] = "failed"]
          ELSE /\ loc' = [loc EXCEPT ![p].cached_data = cached,
                                     ![p].records = <<>>,
                                     ![p].start = _incremental_start(req[p], loc[p].target_year, cached)]
               /\ pc' = [pc EXCEPT ![p] = "inc_fetch"]
    /\ UNCHANGED <<store, manifest, upstream, revisions, req, lab, owed, drv, mr, eng>>

\* merged = _merge_records(cached_data, records), or the raw records when refresh runs with incremental=false
_stored_rows(r, cached_data, records) ==
    IF r.kind = "get_daily" \/ r.incremental
    THEN _merge_records(cached_data, records)
    ELSE records

IncrementalFetch(p) ==
    /\ pc[p] = "inc_fetch"
    /\ LET start_dt == IF loc[p].start # NoDate THEN loc[p].start ELSE Jan1(loc[p].target_year)
       IN \E rows \in _fetch_daily_outcomes(upstream, start_dt, loc[p].end_date) :
            LET merged == _stored_rows(req[p], loc[p].cached_data, rows)
            IN /\ loc' = [loc EXCEPT ![p].records = rows, ![p].merged = merged,
                                     ![p].fetches = Append(@, <<start_dt, loc[p].end_date>>),
                                     ![p].count = IF Writes(req[p]) THEN @ ELSE Len(merged)]
               /\ pc' = [pc EXCEPT ![p] = IF Writes(req[p]) THEN "inc_put" ELSE "done"]
    /\ UNCHANGED <<store, manifest, upstream, revisions, req, lab, owed, drv, mr, eng>>

IncrementalPut(p) ==
    /\ pc[p] = "inc_put"
    /\ LET y == loc[p].target_year
       IN /\ store' = [store EXCEPT ![y] = _put_s3_json(@, Payload(y, loc[p].merged))]
          /\ owed' = OwedAfterPut(req[p], y, store'[y].data)
    /\ pc' = [pc EXCEPT ![p] = "inc_mget"]
    /\ UNCHANGED <<manifest, upstream, revisions, req, loc, lab, drv, mr, eng>>

IncrementalManifestGet(p) ==
    /\ pc[p] = "inc_mget"
    /\ loc' = [loc EXCEPT ![p].man = manifest]
    /\ pc' = [pc EXCEPT ![p] = "inc_mput"]
    /\ UNCHANGED <<store, manifest, upstream, revisions, req, lab, owed, drv, mr, eng>>

IncrementalManifestPut(p) ==
    /\ pc[p] = "inc_mput"
    /\ manifest' = _update_manifest(loc[p].man, loc[p].target_year,
                                    Payload(loc[p].target_year, loc[p].merged))
    /\ loc' = [loc EXCEPT ![p].man = AbsentManifest,
                          ![p].count = IF req[p].kind = "refresh" THEN Len(loc[p].merged) ELSE @]
    /\ pc' = [pc EXCEPT ![p] = IF req[p].kind = "get_daily" THEN "read" ELSE "done"]
    /\ UNCHANGED <<store, upstream, revisions, req, lab, owed, drv, mr, eng>>

\* ---- storage read errors: _get_s3_json swallows the exception and returns None ----
FillGetFails(p) ==
    /\ pc[p] = "fill_get"
    /\ Writes(req[p])
    /\ LET y == Head(loc[p].queue)
           merged == _merge_records(<<>>, _split_by_year_rows(loc[p].records, y))
       IN loc' = [loc EXCEPT ![p].cached_data = <<>>, ![p].merged = merged]
    /\ pc' = [pc EXCEPT ![p] = "fill_put"]
    /\ UNCHANGED <<store, manifest, upstream, revisions, req, lab, owed, drv, mr, eng>>

IncrementalGetFails(p) ==
    /\ pc[p] = "inc_get"
    /\ loc' = [loc EXCEPT ![p].cached_data = <<>>,
                          ![p].records = <<>>,
                          ![p].start = _incremental_start(req[p], loc[p].target_year, <<>>)]
    /\ pc' = [pc EXCEPT ![p] = "inc_fetch"]
    /\ UNCHANGED <<store, manifest, upstream, revisions, req, lab, owed, drv, mr, eng>>

FillManifestGetFails(p) ==
    /\ pc[p] = "fill_mget"
    /\ loc' = [loc EXCEPT ![p].man = AbsentManifest]
    /\ pc' = [pc EXCEPT ![p] = "fill_mput"]
    /\ UNCHANGED <<store, manifest, upstream, revisions, req, lab, owed, drv, mr, eng>>

IncrementalManifestGetFails(p) ==
    /\ pc[p] = "inc_mget"
    /\ loc' = [loc EXCEPT ![p].man = AbsentManifest]
    /\ pc' = [pc EXCEPT ![p] = "inc_mput"]
    /\ UNCHANGED <<store, manifest, upstream, revisions, req, lab, owed, drv, mr, eng>>

\* years_list = [end_date.year - i for i in range(years)], visited in ascending order
RECURSIVE ReadYears(_, _, _)
ReadYears(st, y, last) ==
    IF y > last THEN <<>>
    ELSE (IF y \in Years THEN CachedData(st[y]) ELSE <<>>) \o ReadYears(st, y + 1, last)

_read_rows_lastyear(st, end_year, years) ==
    SortByDate(ReadYears(st, end_year, end_year))

\* all_rows: the cached rows of the years end_year - years + 1 .. end_year, sorted by date
_read_rows(st, end_year, years) ==
    SortByDate(ReadYears(st, end_year - years + 1, end_year))

ReadAssemble(p) ==
    /\ pc[p] = "read"
    /\ LET all_rows == _read_rows(store, YearOf(loc[p].end_date), req[p].years)
       IN loc' = [loc EXCEPT ![p].count = Len(all_rows), ![p].data = all_rows]
    /\ pc' = [pc EXCEPT ![p] = "done"]
    /\ UNCHANGED <<store, manifest, upstream, revisions, req, lab, owed, drv, mr, eng>>

Return(p) ==
    /\ pc[p] \in {"done", "failed"}
    /\ pc' = [pc EXCEPT ![p] = "idle"]
    /\ req' = [req EXCEPT ![p] = NoReq]
    /\ loc' = [loc EXCEPT ![p] = NoLoc]
    /\ UNCHANGED <<store, manifest, upstream, revisions, lab, owed, drv, mr, eng>>

\* the provider corrects the close of a bar it published within the last DefaultLookback days
Revise(d) ==
    /\ revisions < MaxRevisions
    /\ d >= MinusDays(Today, DefaultLookback)
    /\ upstream' = [upstream EXCEPT ![d] = @ + 1]
    /\ revisions' = revisions + 1
    /\ loc' = [q \in Procs |-> [loc[q] EXCEPT !.alone = FALSE]]
    /\ UNCHANGED <<store, manifest, pc, req, lab, owed, drv, mr, eng>>

----------------------------------------------------------------------------
(* Specifications *)

\* ---- the idle values of the components a specification does not exercise ----
DefaultBatchSize == 1

DriverSymbols == {"AAA", "BBB"}

DriverOff == [stage |-> "off", symbols |-> <<>>, batch_size |-> DefaultBatchSize, k |-> 1,
              posted |-> <<>>, outcomes |-> <<>>,
              status_by_symbol |-> [s \in DriverSymbols |-> "none"],
              failed_batches |-> <<>>, failed |-> 0]

MultiOff == [stage |-> "off", symbols |-> <<>>, i |-> 1, at |-> "top", results |-> <<>>,
             stored |-> {}, status |-> 0]

Units == {"u1", "u2"}

NoResult == [status |-> "none", filepath |-> <<>>]

IdleUnit == [pc |-> "idle", ticker |-> "", path |-> <<>>, daily_index |-> <<>>,
             had |-> FALSE, result |-> NoResult]

EngineOff == [on |-> FALSE, present |-> FALSE, entries |-> <<>>, unit |-> [u \in Units |-> IdleUnit]]

\* ---- refresh over a list of symbols, with storage puts that may raise ----
RefreshSymbols == {"", "AAA", "BBB"}


\* a blank symbol is skipped
RefreshSkipBlank ==
    /\ mr.stage = "loop" /\ mr.at = "top"
    /\ mr.i <= Len(mr.symbols)
    /\ mr.symbols[mr.i] = ""
    /\ mr' = [mr EXCEPT !.i = @ + 1]
    /\ UNCHANGED <<store, manifest, upstream, revisions, pc, req, loc, lab, owed, drv, eng>>

\* fetch and merge of the symbol, then _put_s3_json of its partition
RefreshPutPartition ==
    /\ mr.stage = "loop" /\ mr.at = "top"
    /\ mr.i <= Len(mr.symbols)
    /\ mr.symbols[mr.i] # ""
    /\ mr' = [mr EXCEPT !.at = "manifest", !.stored = @ \cup {mr.symbols[mr.i]}]
    /\ UNCHANGED <<store, manifest, upstream, revisions, pc, req, loc, lab, owed, drv, eng>>

\* put_object raises: nothing in refresh catches it, the request ends with a server error
RefreshPutPartitionRaises ==
    /\ mr.stage = "loop" /\ mr.at = "top"
    /\ mr.i <= Len(mr.symbols)
    /\ mr.symbols[mr.i] # ""
    /\ mr' = [mr EXCEPT !.stage = "responded", !.status = 500, !.results = <<>>]
    /\ UNCHANGED <<store, manifest, upstream, revisions, pc, req, loc, lab, owed, drv, eng>>

\* _update_manifest, then results.append
RefreshPutManifest ==
    /\ mr.stage = "loop" /\ mr.at = "manifest"
    /\ mr' = [mr EXCEPT !.at = "top", !.i = @ + 1, !.results = Append(@, mr.symbols[mr.i])]
    /\ UNCHANGED <<store, manifest, upstream, revisions, pc, req, loc, lab, owed, drv, eng>>

RefreshPutManifestRaises ==
    /\ mr.stage = "loop" /\ mr.at = "manifest"
    /\ mr' = [mr EXCEPT !.stage = "responded", !.status = 500, !.results = <<>>]
    /\ UNCHANGED <<store, manifest, upstream, revisions, pc, req, loc, lab, owed, drv, eng>>

\* return {"ok": True, "stored": ..., "results": results}
RefreshRespond ==
    /\ mr.stage = "loop" /\ mr.at = "top"
    /\ mr.i > Len(mr.symbols)
    /\ mr' = [mr EXCEPT !.stage = "responded", !.status = 200]
    /\ UNCHANGED <<store, manifest, upstream, revisions, pc, req, loc, lab, owed, drv, eng>>

InitMulti ==
    /\ store = [y \in Years |-> AbsentPartition]
    /\ manifest = AbsentManifest
    /\ upstream = [d \in TradingDays |-> 100]
    /\ revisions = 0
    /\ pc = [p \in Procs |-> "idle"]
    /\ req = [p \in Procs |-> NoReq]
    /\ loc = [p \in Procs |-> NoLoc]
    /\ lab = BenchOff
    /\ owed = {}
    /\ drv = DriverOff
    /\ eng = EngineOff
    /\ \E symbols \in SeqsUpTo(RefreshSymbols, MaxSymbols) \ {<<>>} :
         mr = [MultiOff EXCEPT !.stage = "loop", !.symbols = symbols]

NextMulti ==
    \/ RefreshSkipBlank
    \/ RefreshPutPartition
    \/ RefreshPutPartitionRaises
    \/ RefreshPutManifest
    \/ RefreshPutManifestRaises
    \/ RefreshRespond

SpecMulti == InitMulti /\ [][NextMulti]_vars

\* ---- the per-date daily index (trading_data_engine _process_ticker_for_batch) ----
Tickers == {"AAA", "BBB", "CCC"}

\* the stored AI context path of a ticker for the date
PathOf(t) == <<"ai_context", t>>

IndexEntry(t, path) == [ticker |-> t, path |-> path]


\* [item for item in daily_index if item.get("ticker") != ticker]
_without_ticker_keep(daily_index, t) == daily_index

_without_ticker(daily_index, t) ==
    LET Other(item) == item.ticker # t
    IN SelectSeq(daily_index, Other)

HasTicker(entries, t) == \E k \in 1..Len(entries) : entries[k].ticker = t

EngStart(u, t) ==
    /\ eng.on
    /\ eng.unit[u].pc = "idle"
    /\ eng' = [eng EXCEPT !.unit[u] = [IdleUnit EXCEPT !.pc = "context", !.ticker = t]]
    /\ UNCHANGED <<store, manifest, upstream, revisions, pc, req, loc, lab, owed, drv, mr>>

\* steps 1-3: history update, context generation, context save
EngContext(u) ==
    /\ eng.unit[u].pc = "context"
    /\ eng' = [eng EXCEPT !.unit[u].pc = "load", !.unit[u].path = PathOf(eng.unit[u].ticker)]
    /\ UNCHANGED <<store, manifest, upstream, revisions, pc, req, loc, lab, owed, drv, mr>>

EngContextFails(u) ==
    /\ eng.unit[u].pc = "context"
    /\ eng' = [eng EXCEPT !.unit[u].pc = "returned",
                          !.unit[u].result = [status |-> "failed", filepath |-> <<>>]]
    /\ UNCHANGED <<store, manifest, upstream, revisions, pc, req, loc, lab, owed, drv, mr>>

\* the index list the unit goes on with, given what the load returned
Upserted(loaded, t, path) == Append(_without_ticker(loaded, t), IndexEntry(t, path))

\* step 4: load the index, drop the ticker's entry, append the new one
EngLoad(u) ==
    /\ eng.unit[u].pc = "load"
    /\ eng' = [eng EXCEPT !.unit[u].pc = "save",
                          !.unit[u].had = HasTicker(eng.entries, eng.unit[u].ticker),
                          !.unit[u].daily_index =
                              Upserted(eng.entries, eng.unit[u].ticker, eng.unit[u].path)]
    /\ UNCHANGED <<store, manifest, upstream, revisions, pc, req, loc, lab, owed, drv, mr>>

\* the load fails at the storage layer: logged, [] returned
EngLoadFails(u) ==
    /\ eng.unit[u].pc = "load"
    /\ eng' = [eng EXCEPT !.unit[u].pc = "save",
                          !.unit[u].had = HasTicker(eng.entries, eng.unit[u].ticker),
                          !.unit[u].daily_index =
                              Upserted(<<>>, eng.unit[u].ticker, eng.unit[u].path)]
    /\ UNCHANGED <<store, manifest, upstream, revisions, pc, req, loc, lab, owed, drv, mr>>

EngSave(u) ==
    /\ eng.unit[u].pc = "save"
    /\ eng' = [eng EXCEPT !.present = TRUE,
                          !.entries = eng.unit[u].daily_index,
                          !.unit[u].pc = "returned",
                          !.unit[u].result = [status |-> "success",
                                              filepath |-> eng.unit[u].path]]
    /\ UNCHANGED <<store, manifest, upstream, revisions, pc, req, loc, lab, owed, drv, mr>>

\* the save fails at the storage layer: logged, "" returned and not looked at
EngSaveFails(u) ==
    /\ eng.unit[u].pc = "save"
    /\ eng' = [eng EXCEPT !.unit[u].pc = "returned",
                          !.unit[u].result = [status |-> "success",
                                              filepath |-> eng.unit[u].path]]
    /\ UNCHANGED <<store, manifest, upstream, revisions, pc, req, loc, lab, owed, drv, mr>>

EngReturn(u) ==
    /\ eng.unit[u].pc = "returned"
    /\ eng' = [eng EXCEPT !.unit[u] = IdleUnit]
    /\ UNCHANGED <<store, manifest, upstream, revisions, pc, req, loc, lab, owed, drv, mr>>

EngStep(u) ==
    \/ EngContext(u)
    \/ EngContextFails(u)
    \/ EngLoad(u)
    \/ EngSave(u)
    \/ EngReturn(u)

EngFault(u) ==
    \/ EngLoadFails(u)
    \/ EngSaveFails(u)

EngQuiet == \A u \in Units : eng.unit[u].pc = "idle"

InitIndex ==
    /\ store = [y \in Years |-> AbsentPartition]
    /\ manifest = AbsentManifest
    /\ upstream = [d \in TradingDays |-> 100]
    /\ revisions = 0
    /\ pc = [p \in Procs |-> "idle"]
    /\ req = [p \in Procs |-> NoReq]
    /\ loc = [p \in Procs |-> NoLoc]
    /\ lab = BenchOff
    /\ owed = {}
    /\ drv = DriverOff
    /\ mr = MultiOff
    /\ eng = [EngineOff EXCEPT !.on = TRUE]

\* tickers processed one after another, as in the loop of a batch request
EngStartAlone == \E u \in Units : \E t \in Tickers : EngQuiet /\ EngStart(u, t)

NextIndex ==
    \/ EngStartAlone
    \/ \E u \in Units : EngStep(u)

SpecIndex == InitIndex /\ [][NextIndex]_vars

NextIndexFaulty ==
    \/ EngStartAlone
    \/ \E u \in Units : EngStep(u)
    \/ \E u \in Units : EngFault(u)

SpecIndexFaulty == InitIndex /\ [][NextIndexFaulty]_vars

\* two batch requests running at the same time
EngStartOverlapping == \E u \in Units : \E t \in Tickers : EngStart(u, t)

NextIndexConcurrent ==
    \/ EngStartOverlapping
    \/ \E u \in Units : EngStep(u)

SpecIndexConcurrent == InitIndex /\ [][NextIndexConcurrent]_vars

\* ---- the batch driver (run_batch.py main) ----
BatchSizes == {DefaultBatchSize, 2}

\* range(start, stop, step) for a positive step
range_overlapping(start, stop, step) ==
    [k \in 1..(stop - start) |-> start + (k - 1)]

range(start, stop, step) ==
    [k \in 1..((stop - start + step - 1) \div step) |-> start + (k - 1) * step]

\* symbols[i : i + batch_size]
Slice(symbols, i, j) ==
    SubSeq(symbols, i + 1, IF j < Len(symbols) THEN j ELSE Len(symbols))

\* what a post comes back with: status 200 and the symbols named by a non-empty results
\* list (none named: empty or unreadable body), another status, or a raised exception
PostOutcomes ==
    {[kind |-> "ok", named |-> R] : R \in SUBSET DriverSymbols}
        \cup {[kind |-> "http_error", named |-> {}], [kind |-> "request_failed", named |-> {}]}

PostFailed(o) == o.kind # "ok"

StatusAfter(status, batch, o) ==
    LET inBatch == {batch[k] : k \in 1..Len(batch)}
    IN [s \in DriverSymbols |->
          IF PostFailed(o) THEN (IF s \in inBatch THEN "failed" ELSE status[s])
          ELSE IF o.named = {} THEN (IF s \in inBatch THEN "success" ELSE status[s])
          ELSE IF s \in o.named THEN "success"
          ELSE IF s \in inBatch /\ status[s] = "none" THEN "success"
          ELSE status[s]]


BatchStarts == range(0, Len(drv.symbols), drv.batch_size)

\* one iteration of the loop: build the batch, post it once, record the outcome
BatchPost ==
    /\ drv.stage = "loop"
    /\ drv.k <= Len(BatchStarts)
    /\ LET i == BatchStarts[drv.k]
           batch == Slice(drv.symbols, i, i + drv.batch_size)
       IN \E o \in PostOutcomes :
            drv' = [drv EXCEPT !.k = @ + 1,
                               !.posted = Append(@, batch),
                               !.outcomes = Append(@, o.kind),
                               !.status_by_symbol = StatusAfter(@, batch, o),
                               !.failed_batches =
                                   IF PostFailed(o)
                                   THEN Append(@, [batch |-> batch, status |-> o.kind])
                                   ELSE @]
    /\ UNCHANGED <<store, manifest, upstream, revisions, pc, req, loc, lab, owed, mr, eng>>

\* after the loop: the summary
BatchSummary ==
    /\ drv.stage = "loop"
    /\ drv.k > Len(BatchStarts)
    /\ drv' = [drv EXCEPT !.stage = "summary",
                          !.failed = Cardinality({s \in DriverSymbols :
                                                     drv.status_by_symbol[s] = "failed"})]
    /\ UNCHANGED <<store, manifest, upstream, revisions, pc, req, loc, lab, owed, mr, eng>>

InitBatch ==
    /\ store = [y \in Years |-> AbsentPartition]
    /\ manifest = AbsentManifest
    /\ upstream = [d \in TradingDays |-> 100]
    /\ revisions = 0
    /\ pc = [p \in Procs |-> "idle"]
    /\ req = [p \in Procs |-> NoReq]
    /\ loc = [p \in Procs |-> NoLoc]
    /\ lab = BenchOff
    /\ owed = {}
    /\ mr = MultiOff
    /\ eng = EngineOff
    /\ \E symbols \in SeqsUpTo(DriverSymbols, MaxSymbols) : \E b \in BatchSizes :
         drv = [DriverOff EXCEPT !.stage = "loop", !.symbols = symbols, !.batch_size = b]

NextBatch == BatchPost \/ BatchSummary

\* the loop body always returns: the post either answers, or raises within the timeout
SpecBatch == InitBatch /\ [][NextBatch]_vars /\ WF_vars(NextBatch)

Init ==
    /\ store = [y \in Years |-> AbsentPartition]
    /\ manifest = AbsentManifest
    /\ upstream = [d \in TradingDays |-> 100]
    /\ revisions = 0
    /\ pc = [p \in Procs |-> "idle"]
    /\ req = [p \in Procs |-> NoReq]
    /\ loc = [p \in Procs |-> NoLoc]
    /\ lab = BenchOff
    /\ owed = {}
    /\ drv = DriverOff
    /\ mr = MultiOff
    /\ eng = EngineOff

Step(p) ==
    \/ FillFetch(p)
    \/ FillGet(p)
    \/ FillPut(p)
    \/ FillManifestGet(p)
    \/ FillManifestPut(p)
    \/ IncrementalGet(p)
    \/ IncrementalFetch(p)
    \/ IncrementalPut(p)
    \/ IncrementalManifestGet(p)
    \/ IncrementalManifestPut(p)
    \/ ReadAssemble(p)
    \/ Return(p)

Quiescent == \A p \in Procs : pc[p] = "idle"

\* requests served one at a time
StartAlone == \E r \in Requests : Quiescent /\ Start("r1", r)

Next ==
    \/ StartAlone
    \/ \E p \in Procs : Step(p)
    \/ \E d \in TradingDays : Revise(d)

Spec == Init /\ [][Next]_vars

\* requests of the scheduled batch and its repair calls, overlapping in time
ConcurrentRequests ==
    {DefaultRefresh,
     DefaultGetDaily,
     [DefaultRefresh EXCEPT !.fillYear = TRUE],
     [DefaultRefresh EXCEPT !.start = D3],
     [DefaultRefresh EXCEPT !.year = 2023]}

\* requests served one at a time, with storage reads that may fail
GetFails(p) ==
    \/ FillGetFails(p)
    \/ IncrementalGetFails(p)
    \/ FillManifestGetFails(p)
    \/ IncrementalManifestGetFails(p)

StartFaulty == \E r \in ConcurrentRequests : Quiescent /\ Start("r1", r)

NextFaulty ==
    \/ StartFaulty
    \/ \E p \in Procs : Step(p)
    \/ \E p \in Procs : GetFails(p)

SpecFaulty == Init /\ [][NextFaulty]_vars

StartOverlapping == \E p \in Procs : \E r \in ConcurrentRequests : Start(p, r)

NextConcurrent ==
    \/ StartOverlapping
    \/ \E p \in Procs : Step(p)

SpecConcurrent == Init /\ [][NextConcurrent]_vars

\* ---- _compute_features and _compute_rsi (trading_data_engine) ----
MinCloses == 200
Window50 == 50
Window200 == 200
RsiPeriod == 14
MaxExtra == 2
TailLen == 2

\* a missing close (NaN)
Missing == -1

\* a number that may be NaN, kept exactly as num/den with den > 0
NaN == [ok |-> FALSE, num |-> 0, den |-> 1]
Num(n, d) == [ok |-> TRUE, num |-> n, den |-> d]
Lt(a, b) == a.num * b.den < b.num * a.den

\* the Close column: a long run at one level, Window50 rows at another, then the last rows
Levels == {10, 20}
TailCloses == {Missing, 10, 20, 10000}
FeatureInputs ==
    [n : (MinCloses - 1)..(MinCloses + MaxExtra), old : Levels, recent : Levels,
     tail : [1..TailLen -> TailCloses], gap : BOOLEAN]

GapAt == MinCloses \div 2

CloseColumn(inp) ==
    LET body == inp.n - Len(inp.tail)
    IN [i \in 1..inp.n |->
          IF i > body THEN inp.tail[i - body]
          ELSE IF inp.gap /\ i = GapAt THEN Missing
          ELSE IF i > body - Window50 THEN inp.recent
          ELSE inp.old]

\* df_copy['Close'].dropna()
IsValid(v) == v # Missing
dropna(col) == SelectSeq(col, IsValid)

\* position in the dropna'd series of the (valid) row i of the frame
PosInClose(col, i) == Cardinality({k \in 1..i : col[k] # Missing})

RECURSIVE SumOf(_, _, _)
SumOf(xs, lo, hi) ==
    IF lo > hi THEN 0
    ELSE IF lo = hi THEN xs[lo]
    ELSE LET mid == (lo + hi) \div 2
         IN SumOf(xs, lo, mid) + SumOf(xs, mid + 1, hi)

\* close.rolling(window=w).mean() at position j
rolling_mean(close, w, j) ==
    IF j < w THEN NaN ELSE Num(SumOf(close, j - w + 1, j), w)

\* gains and losses of the deltas ending at positions lo..hi of close
RECURSIVE GainOf(_, _, _)
GainOf(close, lo, hi) ==
    IF lo > hi THEN 0
    ELSE (IF close[hi] > close[hi - 1] THEN close[hi] - close[hi - 1] ELSE 0)
             + GainOf(close, lo, hi - 1)

RECURSIVE LossOf(_, _, _)
LossOf(close, lo, hi) ==
    IF lo > hi THEN 0
    ELSE (IF close[hi] < close[hi - 1] THEN close[hi - 1] - close[hi] ELSE 0)
             + LossOf(close, lo, hi - 1)

\* _compute_rsi at position j: rs = avg_gain / avg_loss, rsi = 100 - 100 / (1 + rs);
\* x / 0 is inf for x > 0 and NaN for x = 0
_compute_rsi(close, j) ==
    IF j < RsiPeriod + 1 THEN NaN
    ELSE LET gain == GainOf(close, j - RsiPeriod + 1, j)
             loss == LossOf(close, j - RsiPeriod + 1, j)
         IN IF loss = 0
            THEN (IF gain = 0 THEN NaN ELSE Num(100, 1))
            ELSE Num(100 * gain, gain + loss)

\* a column computed on close, aligned back to row i of the frame
Ma50At(col, i) ==
    IF i < 1 \/ col[i] = Missing THEN NaN
    ELSE rolling_mean(dropna(col), Window50, PosInClose(col, i))

Ma200At(col, i) ==
    IF i < 1 \/ col[i] = Missing THEN NaN
    ELSE rolling_mean(dropna(col), Window200, PosInClose(col, i))

RsiAt(col, i) ==
    IF i < 1 \/ col[i] = Missing THEN NaN
    ELSE _compute_rsi(dropna(col), PosInClose(col, i))

ma_signal(rows, prev50, prev200, curr50, curr200) ==
    IF rows >= 2 /\ prev50.ok /\ prev200.ok
    THEN (IF curr50.ok /\ curr200.ok
          THEN (IF Lt(prev50, prev200) /\ Lt(curr200, curr50) THEN "golden_cross"
                ELSE IF Lt(prev200, prev50) /\ Lt(curr50, curr200) THEN "death_cross"
                ELSE IF Lt(curr200, curr50) THEN "golden_cross_state"
                ELSE IF Lt(curr50, curr200) THEN "death_cross_state"
                ELSE "neutral")
          ELSE "neutral")
    ELSE "neutral"

EmptyFeatures == [empty |-> TRUE, latest_close |-> Missing, ma_50 |-> NaN, ma_200 |-> NaN,
                  rsi |-> NaN, ma_signal |-> "none"]

_compute_features(col) ==
    LET rows == Len(col)
        close == dropna(col)
    IN IF rows = 0 \/ Len(close) < MinCloses
       THEN EmptyFeatures
       ELSE [empty |-> FALSE,
             latest_close |-> col[rows],
             ma_50 |-> Ma50At(col, rows),
             ma_200 |-> Ma200At(col, rows),
             rsi |-> RsiAt(col, rows),
             ma_signal |-> ma_signal(rows, Ma50At(col, rows - 1), Ma200At(col, rows - 1),
                                     Ma50At(col, rows), Ma200At(col, rows))]

FeaturesOff == [stage |-> "off", inp |-> [n |-> 0, old |-> 0, recent |-> 0, tail |-> <<>>,
                                           gap |-> FALSE],
                valid |-> 0, out |-> EmptyFeatures]

\* the frame's Close column is coerced and its missing values dropped
FeaturesDropMissing ==
    /\ lab.stage = "feat_in"
    /\ lab' = [lab EXCEPT !.stage = "feat_close",
                          !.valid = Len(dropna(CloseColumn(lab.inp)))]
    /\ UNCHANGED <<store, manifest, upstream, revisions, pc, req, loc, owed, drv, mr, eng>>

FeaturesCompute ==
    /\ lab.stage = "feat_close"
    /\ lab' = [lab EXCEPT !.stage = "feat_out", !.out = _compute_features(CloseColumn(lab.inp))]
    /\ UNCHANGED <<store, manifest, upstream, revisions, pc, req, loc, owed, drv, mr, eng>>

InitFeatures ==
    /\ store = [y \in Years |-> AbsentPartition]
    /\ manifest = AbsentManifest
    /\ upstream = [d \in TradingDays |-> 100]
    /\ revisions = 0
    /\ pc = [p \in Procs |-> "idle"]
    /\ req = [p \in Procs |-> NoReq]
    /\ loc = [p \in Procs |-> NoLoc]
    /\ owed = {}
    /\ drv = DriverOff
    /\ mr = MultiOff
    /\ eng = EngineOff
    /\ \E inp \in FeatureInputs : lab = [FeaturesOff EXCEPT !.stage = "feat_in", !.inp = inp]

NextFeatures == FeaturesDropMissing \/ FeaturesCompute

SpecFeatures == InitFeatures /\ [][NextFeatures]_vars

\* ---- _fetch_daily with its two sources ----
\* what a call produces: a raised exception, or returned rows
Raised == [raised |-> TRUE, rows |-> <<>>]
Returned(rows) == [raised |-> FALSE, rows |-> rows]

\* a data frame row: the index column "Date" and the price column
FrameRow(d, c) == [Date |-> d, close |-> c]
Frame(bars) == [i \in 1..Len(bars) |-> FrameRow(bars[i].date, bars[i].close)]
Reverse(rows) == [i \in 1..Len(rows) |-> rows[Len(rows) + 1 - i]]

FetchStarts == {D1, D2, D3}
FetchEnds == {D2, D3}
FetchWindows(up) == {UpstreamRows(up, s, e) : s \in FetchStarts, e \in FetchEnds}

\* yfinance history: raises, or a frame (possibly empty) in ascending order
PrimaryOutcomes(up) == {Raised} \cup {Returned(Frame(w)) : w \in FetchWindows(up)}
\* stooq DataReader: raises, or a frame (possibly empty) newest first
SecondaryOutcomes(up) == {Raised} \cup {Returned(Reverse(Frame(w))) : w \in FetchWindows(up)}

\* df.sort_index(): ascending by the Date index
sort_index(df) ==
    LET bars == SortByDate([i \in 1..Len(df) |-> Bar(df[i].Date, df[i].close)])
    IN Frame(bars)

\* _df_to_records: rename Date to date and format it; on a frame without rows the
\* date column is missing or not datetime-typed, so the .dt accessor may raise
_df_to_records_outcomes(df) ==
    IF df = <<>>
    THEN {Returned(<<>>), Raised}
    ELSE {Returned([i \in 1..Len(df) |-> Bar(df[i].Date, df[i].close)])}

FetchOff == [stage |-> "off", primary |-> Raised, secondary |-> Raised, df |-> <<>>,
             consulted |-> <<>>, result |-> Returned(<<>>)]

FetchPrimary ==
    /\ lab.stage = "fetch_in"
    /\ IF ~lab.primary.raised /\ lab.primary.rows # <<>>
       THEN lab' = [lab EXCEPT !.stage = "convert", !.df = lab.primary.rows,
                               !.consulted = Append(@, "primary")]
       ELSE lab' = [lab EXCEPT !.stage = "fallback", !.consulted = Append(@, "primary")]
    /\ UNCHANGED <<store, manifest, upstream, revisions, pc, req, loc, owed, drv, mr, eng>>

FetchSecondary ==
    /\ lab.stage = "fallback"
    /\ IF lab.secondary.raised
       THEN lab' = [lab EXCEPT !.stage = "out", !.result = Returned(<<>>),
                               !.consulted = Append(@, "secondary")]
       ELSE lab' = [lab EXCEPT !.stage = "convert", !.df = sort_index(lab.secondary.rows),
                               !.consulted = Append(@, "secondary")]
    /\ UNCHANGED <<store, manifest, upstream, revisions, pc, req, loc, owed, drv, mr, eng>>

FetchConvert ==
    /\ lab.stage = "convert"
    /\ \E o \in _df_to_records_outcomes(lab.df) :
         lab' = [lab EXCEPT !.stage = "out", !.result = o]
    /\ UNCHANGED <<store, manifest, upstream, revisions, pc, req, loc, owed, drv, mr, eng>>

InitFetch ==
    /\ store = [y \in Years |-> AbsentPartition]
    /\ manifest = AbsentManifest
    /\ upstream = [d \in TradingDays |-> 100]
    /\ revisions = 0
    /\ pc = [p \in Procs |-> "idle"]
    /\ req = [p \in Procs |-> NoReq]
    /\ loc = [p \in Procs |-> NoLoc]
    /\ owed = {}
    /\ drv = DriverOff
    /\ mr = MultiOff
    /\ eng = EngineOff
    /\ \E a \in PrimaryOutcomes(upstream) : \E b \in SecondaryOutcomes(upstream) :
         lab = [FetchOff EXCEPT !.stage = "fetch_in", !.primary = a, !.secondary = b]

NextFetch == FetchPrimary \/ FetchSecondary \/ FetchConvert

SpecFetch == InitFetch /\ [][NextFetch]_vars

\* cached 2024 partitions holding a record without a date key, at each position
MalformedPartitions ==
    {<<Undated(100)>>,
     <<Undated(100), Bar(D2, 100)>>,
     <<Bar(D2, 100), Undated(100)>>,
     <<Bar(D2, 100), Undated(100), Bar(D3, 100)>>}

InitMalformed ==
    /\ \E rows \in MalformedPartitions :
         /\ store = [y \in Years |-> IF y = 2024 THEN Payload(y, rows) ELSE AbsentPartition]
         /\ manifest = _update_manifest(AbsentManifest, 2024, Payload(2024, rows))
    /\ upstream = [d \in TradingDays |-> 100]
    /\ revisions = 0
    /\ pc = [p \in Procs |-> "idle"]
    /\ req = [p \in Procs |-> NoReq]
    /\ loc = [p \in Procs |-> NoLoc]
    /\ lab = BenchOff
    /\ owed = {}
    /\ drv = DriverOff
    /\ mr = MultiOff
    /\ eng = EngineOff

SpecMalformed == InitMalformed /\ [][Next]_vars

InitBench ==
    /\ store = [y \in Years |-> AbsentPartition]
    /\ manifest = AbsentManifest
    /\ upstream = [d \in TradingDays |-> 100]
    /\ revisions = 0
    /\ pc = [p \in Procs |-> "idle"]
    /\ req = [p \in Procs |-> NoReq]
    /\ loc = [p \in Procs |-> NoLoc]
    /\ owed = {}
    /\ drv = DriverOff
    /\ mr = MultiOff
    /\ eng = EngineOff
    /\ \E P \in SeqsUpTo(BenchBars, MaxLen) : \E B \in SeqsUpTo(BenchBars, MaxLen) :
         lab = [BenchOff EXCEPT !.stage = "in", !.P = P, !.B = B]

NextBench == BenchMerge \/ BenchMergeAgain

SpecBench == InitBench /\ [][NextBench]_vars


----------------------------------------------------------------------------
(* Properties *)

Settled == \A p \in Procs : pc[p] \in {"idle", "done"}

StrictlyAscending(rows) ==
    /\ \A i \in 1..Len(rows) : HasDate(rows[i])
    /\ \A i \in 1..Len(rows) : \A j \in 1..Len(rows) : i < j => rows[i].date < rows[j].date

\* the last bar of rows dated d
LastWithDate(rows, d) ==
    rows[CHOOSE i \in 1..Len(rows) :
            /\ HasDate(rows[i]) /\ rows[i].date = d
            /\ \A j \in (i + 1)..Len(rows) : ~(HasDate(rows[j]) /\ rows[j].date = d)]

\* C1: every bar stored in the partition of a year is dated in that year.
PartitionHoldsOwnYearOnly ==
    \A y \in Years : \A i \in 1..Len(store[y].data) :
        HasDate(store[y].data[i]) /\ YearOf(store[y].data[i].date) = y

\* C2: merging the same batch a second time into the merged partition changes nothing.
MergeIdempotent == lab.stage = "twice" => lab.again = lab.out

MergeIdempotentWitness ==
    /\ lab.stage = "twice"
    /\ DatesOf(lab.P) \cap DatesOf(lab.B) # {}
    /\ lab.out # lab.P
    /\ Len(lab.B) = MaxLen

\* C3: the merge holds exactly one bar per date of P and B, taken from B (its last bar of
\* that date) when B has the date and from P otherwise, in ascending date order.
MergeLastWriteWins ==
    lab.stage \in {"once", "twice"} =>
        /\ StrictlyAscending(lab.out)
        /\ DatesOf(lab.out) = DatesOf(lab.P) \cup DatesOf(lab.B)
        /\ \A i \in 1..Len(lab.out) :
             lab.out[i] = IF lab.out[i].date \in DatesOf(lab.B)
                          THEN LastWithDate(lab.B, lab.out[i].date)
                          ELSE LastWithDate(lab.P, lab.out[i].date)

MergeScenarioWitness ==
    /\ lab.stage = "once"
    /\ lab.P = <<Bar(MkDate(2024, 1, 2), 100)>>
    /\ lab.B = <<Bar(MkDate(2024, 1, 2), 101), Bar(MkDate(2024, 1, 3), 102)>>
    /\ lab.out = <<Bar(MkDate(2024, 1, 2), 101), Bar(MkDate(2024, 1, 3), 102)>>

\* C4: every stored partition lists its bars with unique, strictly increasing dates.
PartitionStrictlyAscending == \A y \in Years : StrictlyAscending(store[y].data)

RawWriteWitness ==
    \E p \in Procs :
        /\ pc[p] = "done"
        /\ req[p].kind = "refresh" /\ ~req[p].incremental /\ req[p].store
        /\ Len(loc[p].records) >= 2
        /\ store[loc[p].target_year].data = loc[p].records

\* C5: a date once stored in a partition stays stored in it.
PartitionNeverLosesDate ==
    [][\A y \in Years : DatesOf(store[y].data) \subseteq DatesOf(store'[y].data)]_vars

\* C6: a request whose fetch came back empty writes no partition and no manifest.
EmptyFetchWritesNothing ==
    [][\A p \in Procs :
         (pc[p] \in {"inc_put", "inc_mput"} /\ loc[p].records = <<>> /\ pc'[p] # pc[p])
             => (store' = store /\ manifest' = manifest)]_vars

\* C7: the manifest's latestDate is the greatest date of latestDateByYear, absent when
\* latestDateByYear has no date.
ManifestLatestIsMax ==
    /\ \A y \in Years : manifest.latestDateByYear[y] <= manifest.latestDate
    /\ \/ manifest.latestDate = NoDate
       \/ \E y \in Years : manifest.latestDateByYear[y] = manifest.latestDate

ManifestOlderYearWrittenLast ==
    /\ Settled
    /\ manifest.latestDateByYear[2023] # NoDate
    /\ manifest.latestDateByYear[2024] # NoDate
    /\ manifest.latestDateByYear[2023] < manifest.latestDateByYear[2024]
    /\ \E p \in Procs : pc[p] = "done" /\ loc[p].target_year = 2023 /\ loc[p].merged # <<>>

\* C8: once the requests have finished, every year that has a partition object is listed in
\* the manifest's years.
ManifestYearsCoverPartitions ==
    Settled => \A y \in Years : store[y].present => y \in manifest.years

\* C9: a put stores the writer's own merge of the copy it read earlier with the rows it
\* fetched, whatever the partition holds at the time of the put.
PutStoresWritersOwnMerge ==
    [][\A p \in Procs :
         (pc[p] = "inc_put" /\ pc'[p] = "inc_mget" /\ Merges(req[p]))
             => DatesOf(store'[loc[p].target_year].data)
                    = DatesOf(loc[p].cached_data) \cup DatesOf(loc[p].records)]_vars

RaceLostUpdate ==
    /\ Settled
    /\ \E p \in Procs : \E q \in Procs \ {p} :
         /\ pc[p] = "done" /\ pc[q] = "done"
         /\ loc[p].target_year = loc[q].target_year
         /\ store[loc[q].target_year].data = loc[q].merged
         /\ DatesOf(loc[p].merged) \ DatesOf(loc[q].merged) # {}
         /\ \E yd \in owed : yd[1] = loc[q].target_year /\ yd[2] \in DatesOf(loc[p].merged)

\* C10: when the scheduled refresh has run alone, with a successful fetch of unchanged
\* upstream data, the partition it refreshed again holds every bar lost to an earlier race.
ScheduledRefreshRestoresLostBars ==
    \A p \in Procs :
        (pc[p] = "done" /\ req[p] = DefaultRefresh /\ loc[p].alone /\ loc[p].records # <<>>)
            => \A yd \in owed : yd[1] # loc[p].target_year


\* C11: while a fillYear request runs, no step of it removes a stored date from a partition.
FillYearNeverLosesDate ==
    [][\A p \in Procs :
         (req[p].fillYear /\ pc'[p] # pc[p])
             => \A y \in Years : DatesOf(store[y].data) \subseteq DatesOf(store'[y].data)]_vars


\* C12 as stated: a finished fillYear request has handed the fetch client the one window
\* [Jan 1 of targetYear, end] and nothing else.
FillYearSingleFetch ==
    \A p \in Procs :
        (pc[p] = "done" /\ req[p].fillYear)
            => loc[p].fetches = << <<Jan1(TargetYear(req[p])), EndDate(req[p])>> >>

\* the block after the fillYear block runs a fetch of its own
SecondBlockFetches(r) ==
    IF r.kind = "get_daily"
    THEN r.incremental /\ r.start = NoDate /\ r.end = NoDate
    ELSE r.incremental \/ r.start # NoDate \/ r.end # NoDate

\* C12 amended: a fillYear request first fetches [Jan 1 of targetYear, end], whatever the
\* cache holds, and then runs the fetch of the following block exactly when that block's
\* own condition holds.
FillYearFetchesFirstThenContinues ==
    \A p \in Procs :
        (pc[p] = "done" /\ req[p].fillYear)
            => /\ Len(loc[p].fetches) \in {1, 2}
               /\ loc[p].fetches[1] = <<Jan1(TargetYear(req[p])), EndDate(req[p])>>
               /\ (Len(loc[p].fetches) = 2) <=> SecondBlockFetches(req[p])

FillYearSecondFetchWitness ==
    \E p \in Procs :
        /\ pc[p] = "done" /\ req[p].fillYear
        /\ Len(loc[p].fetches) = 2
        /\ loc[p].fetches[2] # loc[p].fetches[1]
        /\ loc[p].cached_data # <<>>


PastIncrementalFetch(p) == pc[p] \in {"inc_put", "inc_mget", "inc_mput", "read", "done"}

\* C13: an incremental request without explicit start and end fetches from the last cached
\* date of the target year's partition minus lookbackDays, or from Jan 1 of the target year
\* when nothing is cached, up to the current day.
IncrementalWindow ==
    \A p \in Procs :
        (PastIncrementalFetch(p) /\ req[p].incremental
            /\ req[p].start = NoDate /\ req[p].end = NoDate)
            => loc[p].fetches[Len(loc[p].fetches)] =
                 << IF loc[p].cached_data # <<>>
                    THEN MinusDays(loc[p].cached_data[Len(loc[p].cached_data)].date,
                                   req[p].lookbackDays)
                    ELSE MkDate(TargetYear(req[p]), 1, 1),
                    Today >>

IncrementalWindowWitness ==
    \E p \in Procs :
        /\ pc[p] = "done" /\ req[p].incremental /\ ~req[p].fillYear
        /\ req[p].start = NoDate /\ req[p].end = NoDate
        /\ loc[p].cached_data # <<>>
        /\ loc[p].fetches = << <<MkDate(2023, 12, 23), Today>> >>


\* C14: a finished request without fillYear that names a start or an end (and stores) has
\* fetched exactly the window built from them, and the fetched bars are in the target
\* year's partition.
ExplicitWindowFetchedAndMerged ==
    \A p \in Procs :
        (pc[p] = "done" /\ ~req[p].fillYear /\ Writes(req[p])
            /\ (req[p].start # NoDate \/ req[p].end # NoDate))
            => /\ loc[p].fetches =
                    << << IF req[p].start # NoDate THEN req[p].start
                          ELSE MkDate(TargetYear(req[p]), 1, 1),
                          IF req[p].end # NoDate THEN req[p].end ELSE Today >> >>
               /\ DatesOf(loc[p].records) \subseteq DatesOf(store[TargetYear(req[p])].data)


Occurrences(rows, r) == Cardinality({i \in 1..Len(rows) : rows[i] = r})

RECURSIVE OccurrencesInYears(_, _)
OccurrencesInYears(ys, r) ==
    IF ys = {} THEN 0
    ELSE LET y == CHOOSE z \in ys : TRUE
         IN Occurrences(store[y].data, r) + OccurrencesInYears(ys \ {y}, r)

RowsIn(rows) == {rows[i] : i \in 1..Len(rows)}

\* C15: a finished read returns each record of the stored partitions of the years
\* end.year - N + 1 .. end.year as often as it is stored there and nothing else, ascending
\* by date, and count is the number of returned records.
ReadReturnsStoredYears ==
    \A p \in Procs :
        (pc[p] = "done" /\ req[p].kind = "get_daily")
            => LET hi == YearOf(IF req[p].end # NoDate THEN req[p].end ELSE Today)
                   ys == {y \in Years : hi - req[p].years + 1 <= y /\ y <= hi}
                   data == loc[p].data
               IN /\ loc[p].count = Len(data)
                  /\ \A r \in RowsIn(data) \cup UNION {RowsIn(store[y].data) : y \in Years} :
                        Occurrences(data, r) = OccurrencesInYears(ys, r)
                  /\ \A i \in 1..(Len(data) - 1) : DateKey(data[i]) <= DateKey(data[i + 1])

\* a 3-year read of a symbol with only the 2024 partition populated
ReadThreeYearsOnePopulated ==
    \E p \in Procs :
        /\ pc[p] = "done" /\ req[p].kind = "get_daily"
        /\ req[p].years = 3 /\ req[p].end = NoDate
        /\ ~store[2023].present
        /\ Len(store[2024].data) >= 2
        /\ loc[p].data = store[2024].data
        /\ loc[p].count = Len(store[2024].data)


ServingStep(p) == req[p].kind = "get_daily" /\ pc[p] \notin {"done", "failed"} /\ pc'[p] # pc[p]

\* C16 as stated: no step of a get_daily request calls the fetch client or changes a
\* partition or the manifest.
GetDailyNeverFetchesOrWrites ==
    [][\A p \in Procs :
         ServingStep(p)
             => (store' = store /\ manifest' = manifest /\ loc'[p].fetches = loc[p].fetches)]_vars

\* C16 amended: the read-assembly step of get_daily neither fetches nor writes, and a
\* get_daily request as a whole neither fetches nor writes when fillYear is false and
\* incremental is false or a start or an end is given.
ReadAssemblyNeverFetchesOrWrites ==
    [][\A p \in Procs :
         (ServingStep(p)
            /\ \/ pc[p] = "read"
               \/ (~req[p].fillYear
                     /\ (~req[p].incremental \/ req[p].start # NoDate \/ req[p].end # NoDate)))
             => (store' = store /\ manifest' = manifest /\ loc'[p].fetches = loc[p].fetches)]_vars

PureReadWitness ==
    \E p \in Procs :
        /\ pc[p] = "done" /\ req[p].kind = "get_daily"
        /\ ~req[p].fillYear /\ ~req[p].incremental
        /\ loc[p].fetches = <<>>
        /\ loc[p].data # <<>>


\* C17: a finished refresh (store enabled) carries a result for the symbol whose count is
\* the number of records of the stored target-year partition.
RefreshCountIsPartitionSize ==
    \A p \in Procs :
        (pc[p] = "done" /\ req[p].kind = "refresh" /\ req[p].store)
            => loc[p].count = Len(store[TargetYear(req[p])].data)


\* C18: with a cached record that has no date, no request fails, and a request that merged
\* into the partition leaves it without the dateless record and with every dated one.
MalformedCachedNeverFatal ==
    \A p \in Procs :
        /\ pc[p] # "failed"
        /\ (pc[p] = "done" /\ Merges(req[p]) /\ Writes(req[p]) /\ ~req[p].fillYear
               /\ loc[p].fetches # <<>>)
              => /\ StrictlyAscending(store[TargetYear(req[p])].data)
                 /\ DatesOf(loc[p].cached_data) \subseteq DatesOf(store[TargetYear(req[p])].data)


\* C19: a finished _fetch_daily has not raised; it consulted the primary first and the
\* secondary only when the primary raised or had no rows; it returns the first non-empty
\* result, and the empty list on every failure path.
FetchPrimaryUsable == ~lab.primary.raised /\ lab.primary.rows # <<>>

FetchSecondaryUsable == ~lab.secondary.raised /\ lab.secondary.rows # <<>>

FetchNeverRaises ==
    lab.stage = "out" =>
        /\ ~lab.result.raised
        /\ lab.consulted = IF FetchPrimaryUsable THEN <<"primary">>
                           ELSE <<"primary", "secondary">>
        /\ DatesOf(lab.result.rows) =
              IF FetchPrimaryUsable THEN {lab.primary.rows[i].Date : i \in 1..Len(lab.primary.rows)}
              ELSE IF FetchSecondaryUsable
                   THEN {lab.secondary.rows[i].Date : i \in 1..Len(lab.secondary.rows)}
                   ELSE {}


\* C20: the driver posts each batch once, in list order; a failed post is recorded once in
\* failed_batches and its symbols are marked failed; the loop goes on to the next batch
\* until every batch has been attempted.
RECURSIVE Flatten(_)
Flatten(batches) ==
    IF batches = <<>> THEN <<>> ELSE Head(batches) \o Flatten(Tail(batches))

RECURSIVE FailedOf(_, _)
FailedOf(posted, outcomes) ==
    IF posted = <<>> THEN <<>>
    ELSE (IF Head(outcomes) # "ok"
          THEN <<[batch |-> Head(posted), status |-> Head(outcomes)]>>
          ELSE <<>>) \o FailedOf(Tail(posted), Tail(outcomes))

BatchLogInOrder ==
    LET sent == Flatten(drv.posted)
    IN /\ Len(sent) <= Len(drv.symbols)
       /\ sent = SubSeq(drv.symbols, 1, Len(sent))
       /\ \A k \in 1..Len(drv.posted) :
            /\ Len(drv.posted[k]) >= 1
            /\ Len(drv.posted[k]) <= drv.batch_size
            /\ k < Len(drv.posted) => Len(drv.posted[k]) = drv.batch_size
       /\ Len(drv.outcomes) = Len(drv.posted)
       /\ drv.failed_batches = FailedOf(drv.posted, drv.outcomes)
       /\ drv.stage = "summary" => sent = drv.symbols

BatchMarksFailed ==
    (Len(drv'.failed_batches) > Len(drv.failed_batches)) =>
        LET batch == drv'.posted[Len(drv'.posted)]
        IN \A k \in 1..Len(batch) : drv'.status_by_symbol[batch[k]] = "failed"

PostsEachBatchOnce ==
    /\ []BatchLogInOrder
    /\ [][BatchMarksFailed]_vars
    /\ <>(drv.stage = "summary")

FailedBatchThenNext ==
    /\ drv.stage = "summary"
    /\ Len(drv.posted) >= 2
    /\ drv.outcomes[1] # "ok"
    /\ drv.outcomes[2] = "ok"
    /\ Len(drv.failed_batches) = 1


\* C26: whenever no request is in flight, the manifest's latestDateByYear[y] is the date of
\* the last record of the stored partition of year y (and is unset when nothing is stored).
PartitionLatest(y) ==
    IF store[y].data = <<>> THEN NoDate ELSE DateKey(store[y].data[Len(store[y].data)])

ManifestMatchesPartitions ==
    Quiescent => \A y \in Years : manifest.latestDateByYear[y] = PartitionLatest(y)

\* C27: the bars a get_daily returns hold at most one bar per date.
ReadHasOneBarPerDate ==
    \A p \in Procs :
        (pc[p] = "done" /\ req[p].kind = "get_daily")
            => \A i \in 1..Len(loc[p].data) : \A j \in 1..Len(loc[p].data) :
                  (i # j /\ HasDate(loc[p].data[i]) /\ HasDate(loc[p].data[j]))
                      => loc[p].data[i].date # loc[p].data[j].date


\* C28: no step of a merging request (get_daily, or refresh with incremental) removes a
\* stored date from a partition, a year from the manifest, or a latestDateByYear entry,
\* also when a storage read of that request fails.
ReadErrorKeepsStoredData ==
    [][\A p \in Procs :
         (Merges(req[p]) /\ pc'[p] # pc[p])
             => /\ \A y \in Years : DatesOf(store[y].data) \subseteq DatesOf(store'[y].data)
                /\ manifest.years \subseteq manifest'.years
                /\ \A y \in Years : manifest.latestDateByYear[y] # NoDate
                                       => manifest'.latestDateByYear[y] # NoDate]_vars


\* C22: fewer than 200 valid closes give an empty result; 200 or more give a snapshot
\* whose ma_200 is defined, wherever the missing closes are.
FeaturesNeedMinCloses ==
    lab.stage = "feat_out" =>
        IF lab.valid < MinCloses THEN lab.out.empty
        ELSE ~lab.out.empty /\ lab.out.ma_200.ok

\* C23: a snapshot's rsi is defined and within [0, 100], and is 100 when the trailing
\* RsiPeriod deltas hold no loss.
TrailingLoss ==
    LET close == dropna(CloseColumn(lab.inp))
    IN LossOf(close, Len(close) - RsiPeriod + 1, Len(close))

RsiDefinedAndBounded ==
    (lab.stage = "feat_out" /\ ~lab.out.empty) =>
        /\ lab.out.rsi.ok
        /\ 0 <= lab.out.rsi.num
        /\ lab.out.rsi.num <= 100 * lab.out.rsi.den
        /\ TrailingLoss = 0 => lab.out.rsi.num = 100 * lab.out.rsi.den

\* C24: ma_signal of a snapshot follows today's and yesterday's moving averages: a
\* crossing today, else the side ma_50 is on, neutral only when undefined or equal.
ExpectedMaSignal ==
    LET col == CloseColumn(lab.inp)
        n == Len(col)
        c50 == Ma50At(col, n)
        c200 == Ma200At(col, n)
        p50 == Ma50At(col, n - 1)
        p200 == Ma200At(col, n - 1)
        prev == p50.ok /\ p200.ok
    IN IF ~c50.ok \/ ~c200.ok THEN "neutral"
       ELSE IF prev /\ Lt(p50, p200) /\ Lt(c200, c50) THEN "golden_cross"
       ELSE IF prev /\ Lt(p200, p50) /\ Lt(c50, c200) THEN "death_cross"
       ELSE IF Lt(c200, c50) THEN "golden_cross_state"
       ELSE IF Lt(c50, c200) THEN "death_cross_state"
       ELSE "neutral"

MaSignalFollowsAverages ==
    (lab.stage = "feat_out" /\ ~lab.out.empty) => lab.out.ma_signal = ExpectedMaSignal


\* C21: a refresh over several symbols answers with the results of the symbols that
\* succeeded and has gone through every symbol, also when a storage put failed.
PutFailureDegrades ==
    mr.stage = "responded" =>
        /\ mr.status = 200
        /\ mr.i > Len(mr.symbols)
        /\ \A k \in 1..Len(mr.results) : mr.results[k] \in mr.stored

\* C25: the stored index holds at most one entry per ticker; saving a ticker keeps the
\* other tickers' entries, and leaves the number of entries unchanged when the ticker
\* already had one.
IndexOneEntryPerTicker ==
    \A i \in 1..Len(eng.entries) : \A j \in 1..Len(eng.entries) :
        i # j => eng.entries[i].ticker # eng.entries[j].ticker

IndexSaveIsUpsert ==
    \A u \in Units :
        (eng.unit[u].pc = "save" /\ eng'.unit[u].pc = "returned")
            => LET t == eng.unit[u].ticker
                   Other(item) == item.ticker # t
               IN /\ SelectSeq(eng'.entries, Other) = SelectSeq(eng.entries, Other)
                  /\ HasTicker(eng'.entries, t)
                  /\ HasTicker(eng.entries, t) => Len(eng'.entries) = Len(eng.entries)

SuccessMeansIndexed ==
    \A u \in Units :
        (eng.unit[u].pc = "returned" /\ eng.unit[u].result.status = "success")
            => \E k \in 1..Len(eng.entries) :
                  eng.entries[k] = IndexEntry(eng.unit[u].ticker, eng.unit[u].result.filepath)

\* C30: when two units for different tickers have both returned success, the stored
\* index holds an entry for both tickers.
BothTickersIndexed ==
    \A u \in Units : \A v \in Units :
        (/\ eng.unit[u].pc = "returned" /\ eng.unit[u].result.status = "success"
         /\ eng.unit[v].pc = "returned" /\ eng.unit[v].result.status = "success"
         /\ eng.unit[u].ticker # eng.unit[v].ticker)
            => HasTicker(eng.entries, eng.unit[u].ticker) /\ HasTicker(eng.entries, eng.unit[v].ticker)

====
